---------------------------- MODULE Spec2Model ----------------------------
(***************************************************************************)
(* Model of the KLASS code-change reconciliation of                        *)
(* ssb_befolkning_fagfunksjoner: klass_utils/change_mapping.py (the change *)
(* graph, its cession labels and the target-date query) and                *)
(* klass_utils/komm_nr.py (split partition, latest-code resolution,        *)
(* update and validation of municipality codes).                           *)
(*                                                                         *)
(* Dates are integers (a datetime.date is used by the code only through    *)
(* <, <=, >, min and max); the fixtures of the test suite use the year of  *)
(* their "YYYY-01-01" dates.  A missing date (Python None) is None.        *)
(***************************************************************************)
EXTENDS Integers, Sequences, FiniteSets, TLC

\* Python's None for an optional date (validTo absent, to_date omitted).
None == -1

\* sourceCode / targetCode of a correspondence row that is null.
null == "null"

(***************************************************************************)
(* Bounds of the generated classifications and of the queries.             *)
(***************************************************************************)
\* Greatest number of (non-null) rows of a generated correspondence table.
MaxRows == 2
\* How many dates after the start of the last version a query may name.
MaxDateAfter == 0
\* Greatest length of a series of municipality codes.
MaxLen == 2

(***************************************************************************)
(* Generic helpers standing for Python built-ins.                          *)
(***************************************************************************)
RECURSIVE SetToSeq(_)
\* list(iterable): the members of a set in some order.
SetToSeq(S) ==
    IF S = {} THEN <<>>
    ELSE LET x == CHOOSE y \in S : TRUE IN <<x>> \o SetToSeq(S \ {x})

Range(s) == {s[i] : i \in DOMAIN s}

\* min(...) / max(...) over a non-empty set of dates.
Min(S) == CHOOSE x \in S : \A y \in S : x <= y
Max(S) == CHOOSE x \in S : \A y \in S : x >= y

RECURSIVE FilterSeq(_, _)
\* filter(pred, seq) for a set `keep` of accepted elements, order kept.
FilterSeq(s, keep) ==
    IF s = <<>> THEN <<>>
    ELSE IF Head(s) \in keep THEN <<Head(s)>> \o FilterSeq(Tail(s), keep)
    ELSE FilterSeq(Tail(s), keep)

RECURSIVE InsertSorted(_, _, _)
\* Insert x after every element whose key is <= key[x] (stable).
InsertSorted(s, x, key) ==
    IF s = <<>> THEN <<x>>
    ELSE IF key[Head(s)] <= key[x] THEN <<Head(s)>> \o InsertSorted(Tail(s), x, key)
    ELSE <<x>> \o s

RECURSIVE SortedByInsertion(_, _, _)
SortedByInsertion(acc, s, key) ==
    IF s = <<>> THEN acc
    ELSE SortedByInsertion(InsertSorted(acc, Head(s), key), Tail(s), key)

\* sorted(versions, key=lambda v: start_dates[v.version_id], reverse=False)
sorted(s, key) == SortedByInsertion(<<>>, s, key)

\* itertools.pairwise(seq): the overlapping pairs of consecutive elements.
pairwise(s) == {<<s[i], s[i + 1]>> : i \in 1..(Len(s) - 1)}

(***************************************************************************)
(* change_mapping.py: code points, cession types, version windows.         *)
(***************************************************************************)
_CodePoint(code, version) == [code |-> code, version |-> version]

_CessionType ==
    {"NO_CESSION", "CESSATION_WHOLE", "CESSATION_PART_TO_NEW",
     "CESSATION_PART_TO_EXISTING", "ADJUSTMENT_PART_TO_NEW",
     "ADJUSTMENT_PART_TO_EXISTING", "BORDER_CHANGE"}

_get_from_date(version) == version.validFrom

\* None when the version has no "validTo" key.
_get_to_date(version) == version.validTo

\* A variant of _dates_overlap that ignores to_date.
_dates_overlap_ignoring_to_date(version, from_date, to_date) ==
    _get_to_date(version) = None \/ from_date < _get_to_date(version)

_dates_overlap(version, from_date, to_date) ==
    LET v_from_date == _get_from_date(version)
        v_to_date == _get_to_date(version)
    IN  /\ (v_to_date = None \/ from_date < v_to_date)
        /\ (to_date = None \/ v_from_date <= to_date)

(***************************************************************************)
(* The classification service (klass.KlassClassification), as the mocks of *)
(* the test suite present it: `versions` is the list of version metadata,  *)
(* `items[v]` the codes of version v, `tables` the correspondence tables.  *)
(* Every version references the tables it is an endpoint of.               *)
(***************************************************************************)
VersionIds(classification) ==
    {classification.versions[i].version_id : i \in DOMAIN classification.versions}

VersionMeta(classification, version_id) ==
    CHOOSE m \in Range(classification.versions) : m.version_id = version_id

\* version.correspondenceTables
correspondenceTables(classification, version_id) ==
    {ct \in classification.tables :
        ct.sourceId = version_id \/ ct.targetId = version_id}

\* {item["code"] for item in version.classificationItems}
classificationItems(classification, version_id) ==
    classification.items[version_id]

(***************************************************************************)
(* _build_change_graph and _label_changes.                                 *)
(* A graph is its set of edges <<v, u>>; as in networkx a node exists only *)
(* once add_edge has named it.                                             *)
(***************************************************************************)
Nodes(edges) == {e[1] : e \in edges} \cup {e[2] : e \in edges}
successors(edges, n) == {e[2] : e \in {d \in edges : d[1] = n}}
predecessors(edges, n) == {e[1] : e \in {d \in edges : d[2] = n}}
out_degree(edges, n) == Cardinality(successors(edges, n))
in_degree(edges, n) == Cardinality(predecessors(edges, n))

\* filter(_dates_overlap, classification.versions): metadata in list order.
versions_meta(classification, from_date, to_date) ==
    LET keep == {m \in Range(classification.versions) :
                    _dates_overlap(m, from_date, to_date)}
    IN  FilterSeq(classification.versions, keep)

\* versions_ids: the ids of the versions that passed the filter.
versions_ids(metas) == {metas[i].version_id : i \in DOMAIN metas}

\* start_dates: version_id -> validFrom date, for the filtered versions.
start_dates(metas) ==
    [v \in versions_ids(metas) |->
        _get_from_date(CHOOSE m \in Range(metas) : m.version_id = v)]

\* The fetched versions (their ids) sorted ascending by start date.
sorted_versions(metas) ==
    sorted([i \in DOMAIN metas |-> metas[i].version_id], start_dates(metas))

\* Edges `code -> code` between consecutive versions, preset NO_CESSION.
identity_edges(classification, versions) ==
    UNION {
      {<<_CodePoint(code, p[1]), _CodePoint(code, p[2])>> :
          code \in classificationItems(classification, p[1])
                   \cap classificationItems(classification, p[2])}
      : p \in pairwise(versions)}

\* select_cts over every fetched version, deduplicated by table id.
change_tables(classification, ids) ==
    UNION {
      {ct \in correspondenceTables(classification, v) :
          ct.sourceId \in ids /\ ct.targetId \in ids}
      : v \in ids}

\* A variant that adds the edges as the table stores them.
table_edges_as_stored(change_table, starts) ==
    {<<_CodePoint(change.sourceCode, change_table.sourceId),
       _CodePoint(change.targetCode, change_table.targetId)>> :
        change \in {c \in change_table.correspondence :
                       ~(c.sourceCode = null \/ c.targetCode = null)}}

\* A variant that adds an edge for every row, null codes included.
table_edges_nulls_kept(change_table, starts) ==
    {IF starts[change_table.sourceId] > starts[change_table.targetId]
     THEN <<_CodePoint(change.targetCode, change_table.targetId),
            _CodePoint(change.sourceCode, change_table.sourceId)>>
     ELSE <<_CodePoint(change.sourceCode, change_table.sourceId),
            _CodePoint(change.targetCode, change_table.targetId)>>
     : change \in change_table.correspondence}

\* The edges of one table, reversed when the table is stored backwards.
table_edges(change_table, starts) ==
    LET backwards == starts[change_table.sourceId] > starts[change_table.targetId]
        rows == {change \in change_table.correspondence :
                    ~(change.sourceCode = null \/ change.targetCode = null)}
    IN  {IF backwards
         THEN <<_CodePoint(change.targetCode, change_table.targetId),
                _CodePoint(change.sourceCode, change_table.sourceId)>>
         ELSE <<_CodePoint(change.sourceCode, change_table.sourceId),
                _CodePoint(change.targetCode, change_table.targetId)>>
         : change \in rows}

correspondence_edges(tables, starts) ==
    UNION {table_edges(ct, starts) : ct \in tables}

\* A variant of the rules that tests for equal codes first.
_label_changes_border_first(edges, edge) ==
    LET v == edge[1]
        u == edge[2]
        old_codes == {p.code : p \in predecessors(edges, u)}
        new_codes == {s.code : s \in successors(edges, v)}
    IN  IF v.code = u.code THEN "BORDER_CHANGE"
        ELSE IF in_degree(edges, u) = 1 /\ out_degree(edges, v) = 1
             THEN "NO_CESSION"
        ELSE IF out_degree(edges, v) = 1 THEN "CESSATION_WHOLE"
        ELSE IF v.code \notin new_codes /\ u.code \notin old_codes
             THEN "CESSATION_PART_TO_NEW"
        ELSE IF v.code \notin new_codes THEN "CESSATION_PART_TO_EXISTING"
        ELSE IF u.code \notin old_codes THEN "ADJUSTMENT_PART_TO_NEW"
        ELSE "ADJUSTMENT_PART_TO_EXISTING"

\* The label _label_changes gives an edge that has none.
_label_changes(edges, edge) ==
    LET v == edge[1]
        u == edge[2]
        out_deg == out_degree(edges, v)
        in_deg == in_degree(edges, u)
        old_codes == {p.code : p \in predecessors(edges, u)}
        new_codes == {s.code : s \in successors(edges, v)}
    IN  IF in_deg = 1 /\ out_deg = 1 THEN "NO_CESSION"
        ELSE IF v.code = u.code THEN "BORDER_CHANGE"
        ELSE IF out_deg = 1 THEN "CESSATION_WHOLE"
        ELSE IF v.code \notin new_codes /\ u.code \notin old_codes
             THEN "CESSATION_PART_TO_NEW"
        ELSE IF v.code \notin new_codes THEN "CESSATION_PART_TO_EXISTING"
        ELSE IF u.code \notin old_codes THEN "ADJUSTMENT_PART_TO_NEW"
        ELSE "ADJUSTMENT_PART_TO_EXISTING"

\* A variant of the graph in which the preset of an identity edge stays.
_build_change_graph_preset_kept(classification, from_date, to_date) ==
    LET metas == versions_meta(classification, from_date, to_date)
        ids == versions_ids(metas)
        tables == change_tables(classification, ids)
        identity == identity_edges(classification, sorted_versions(metas))
        corr == correspondence_edges(tables, start_dates(metas))
        edges == identity \cup corr
    IN  [edges |-> edges,
         cession_type |-> [e \in edges |->
             IF e \in identity THEN "NO_CESSION" ELSE _label_changes(edges, e)],
         fetched_versions |-> ids,
         fetched_tables |-> {ct.id : ct \in tables}]

\* The graph: identity edges first, then correspondence edges, which reset
\* the cession type of an edge already present to None; then the labels.
\* fetched_versions / fetched_tables record the get_version and
\* get_correspondence calls made on the service.
_build_change_graph(classification, from_date, to_date) ==
    LET metas == versions_meta(classification, from_date, to_date)
        ids == versions_ids(metas)
        tables == change_tables(classification, ids)
        identity == identity_edges(classification, sorted_versions(metas))
        corr == correspondence_edges(tables, start_dates(metas))
        edges == identity \cup corr
    IN  [edges |-> edges,
         cession_type |-> [e \in edges |->
             IF e \in corr THEN _label_changes(edges, e) ELSE "NO_CESSION"],
         fetched_versions |-> ids,
         fetched_tables |-> {ct.id : ct \in tables}]

\* The graph before any call of _build_change_graph.
NoGraph ==
    [edges |-> {}, cession_type |-> <<>>,
     fetched_versions |-> {}, fetched_tables |-> {}]

(***************************************************************************)
(* get_klass_change_mapping.                                               *)
(***************************************************************************)
\* A variant of the traversal that stops after one hop.
dfs_one_hop(edges, stack, visited) ==
    Range(stack) \cup UNION {successors(edges, n) : n \in Range(stack)}

RECURSIVE dfs_preorder_nodes(_, _, _)
\* networkx.dfs_preorder_nodes(G, source): depth-first search with an
\* explicit stack; called with stack = <<source>> and visited = {}.
dfs_preorder_nodes(edges, stack, visited) ==
    IF stack = <<>> THEN visited
    ELSE LET n == Head(stack) IN
         IF n \in visited THEN dfs_preorder_nodes(edges, Tail(stack), visited)
         ELSE dfs_preorder_nodes(
                  edges,
                  SetToSeq(successors(edges, n) \ visited) \o Tail(stack),
                  visited \cup {n})

\* A variant of the view that keeps every edge.
subgraph_view_unfiltered(graph) == graph.edges

\* networkx.subgraph_view(graph, filter_edge=...): the edges kept.
subgraph_view(graph) ==
    {e \in graph.edges : graph.cession_type[e] # "ADJUSTMENT_PART_TO_EXISTING"}

\* A variant of graph.reverse() that leaves the edges as they are.
reverse_forgotten(edges) == edges

\* graph.reverse()
reverse(edges) == {<<e[2], e[1]>> : e \in edges}

\* The metadata of the versions that contain target_date, in list order.
target_versions(classification, target_date) ==
    versions_meta(classification, target_date, target_date)

\* target_date = None -> the latest version start.
default_target_date(classification, target_date) ==
    IF target_date = None
    THEN Max({_get_from_date(m) : m \in Range(classification.versions)})
    ELSE target_date

\* A variant of the from_date default that keeps None.
default_from_date_forgotten(classification, from_date) == from_date

\* from_date = None -> the earliest version start.
default_from_date(classification, from_date) ==
    IF from_date = None
    THEN Min({_get_from_date(m) : m \in Range(classification.versions)})
    ELSE from_date

\* The precondition check of get_klass_change_mapping.
target_older_than_from(target_date, from_date) == target_date < from_date

ValueErrorTargetOlder ==
    "ValueError: Target date older than from date, or older than KLASS classifcation"
StopIteration == "StopIteration"
ValueErrorUnpack == "ValueError: not enough values to unpack (expected 2, got 0)"

\* The correspondences set: (target_cp.code, source_cp.code) for every
\* node of the target version and every node the two traversals yield;
\* kept here as pairs <<old_code, new_code>>, the rows of the Series.
correspondences(graph, target_version_id) ==
    LET view == subgraph_view(graph)
        reverse_graph == reverse(view)
        target_cps == {n \in Nodes(graph.edges) : n.version = target_version_id}
    IN  UNION {
          {<<source_cp.code, target_cp.code>> :
              source_cp \in dfs_preorder_nodes(view, <<target_cp>>, {})
                  \cup dfs_preorder_nodes(reverse_graph, <<target_cp>>, {})}
          : target_cp \in target_cps}

\* The outcome of one call: the Series as its set of <<old_code, new_code>>
\* rows, or the exception raised, with the graph built on the way.
get_klass_change_mapping(classification, target_date_in, from_date_in, to_date) ==
    LET target_date == default_target_date(classification, target_date_in)
        from_date == default_from_date(classification, from_date_in)
    IN  IF target_older_than_from(target_date, from_date)
        THEN [status |-> "raised", error |-> ValueErrorTargetOlder,
              series |-> {}, graph |-> NoGraph,
              target_date |-> target_date, from_date |-> from_date]
        ELSE
        LET graph == _build_change_graph(classification, from_date, to_date)
            found == target_versions(classification, target_date)
        IN  IF found = <<>>
            THEN [status |-> "raised", error |-> StopIteration,
                  series |-> {}, graph |-> graph,
                  target_date |-> target_date, from_date |-> from_date]
            ELSE
            LET pairs == correspondences(graph, Head(found).version_id)
            IN  IF pairs = {}
                THEN [status |-> "raised", error |-> ValueErrorUnpack,
                      series |-> {}, graph |-> graph,
                      target_date |-> target_date, from_date |-> from_date]
                ELSE [status |-> "returned", error |-> "",
                      series |-> pairs, graph |-> graph,
                      target_date |-> target_date, from_date |-> from_date]

(***************************************************************************)
(* The classifications of the test suite ("Kommuneinndeling" fixtures).    *)
(***************************************************************************)
Row(sourceCode, targetCode) == [sourceCode |-> sourceCode, targetCode |-> targetCode]

\* tests/klass_utils/test_change_tables.py: four versions, 2019..2024.
FixtureFour ==
    [versions |-> <<
        [version_id |-> 4, validFrom |-> 2024, validTo |-> None],
        [version_id |-> 3, validFrom |-> 2023, validTo |-> 2024],
        [version_id |-> 2, validFrom |-> 2020, validTo |-> 2022],
        [version_id |-> 1, validFrom |-> 2019, validTo |-> 2020]>>,
     items |-> (1 :> {"1504", "1523", "1529"} @@ 2 :> {"1507"}
                @@ 3 :> {"1507"} @@ 4 :> {"1508", "1580"}),
     tables |-> {
        [id |-> 3, sourceId |-> 4, targetId |-> 3,
         correspondence |-> {Row("1508", "1507"), Row("1580", "1507")}],
        [id |-> 2, sourceId |-> 3, targetId |-> 2, correspondence |-> {}],
        [id |-> 1, sourceId |-> 2, targetId |-> 1,
         correspondence |-> {Row("1507", "1504"), Row("1507", "1523"),
                             Row("1507", "1529")}]}]

\* tests/klass_utils/test_change_mapping.py: five versions, 2019..2026.
FixtureFive ==
    [versions |-> <<
        [version_id |-> 5, validFrom |-> 2026, validTo |-> None],
        [version_id |-> 4, validFrom |-> 2024, validTo |-> 2026],
        [version_id |-> 3, validFrom |-> 2023, validTo |-> 2024],
        [version_id |-> 1, validFrom |-> 2019, validTo |-> 2020],
        [version_id |-> 2, validFrom |-> 2020, validTo |-> 2022]>>,
     items |-> (1 :> {"1504", "1523", "1529"} @@ 2 :> {"1507"}
                @@ 3 :> {"1507"}
                @@ 4 :> {"1508", "1580", "3118", "3207", "3216"}
                @@ 5 :> {"3118", "3207", "3216"}),
     tables |-> {
        [id |-> 4, sourceId |-> 5, targetId |-> 4,
         correspondence |-> {Row("3118", "3118"), Row("3207", "3118"),
                             Row("3207", "3207"), Row("3216", "3118"),
                             Row("3216", "3216")}],
        [id |-> 3, sourceId |-> 4, targetId |-> 3,
         correspondence |-> {Row("1508", "1507"), Row("1580", "1507")}],
        [id |-> 2, sourceId |-> 3, targetId |-> 2, correspondence |-> {}],
        [id |-> 1, sourceId |-> 2, targetId |-> 1,
         correspondence |-> {Row("1507", "1504"), Row("1507", "1523"),
                             Row("1507", "1529")}]}]

(***************************************************************************)
(* get_komm_nr_changes (komm_nr.py): the change mapping without its        *)
(* identity rows, partitioned into clean changes and splits.               *)
(***************************************************************************)
\* komm_nr_change_series.loc[index != values]
drop_non_changes(series) == {row \in series : row[1] # row[2]}

\* A variant of the duplicate test that marks no row.
is_split_never(series, row) == FALSE

\* index.duplicated(keep=False): the old code labels more than one row.
is_split(series, row) == \E other \in series : other[1] = row[1] /\ other # row

\* (komm_nr_changes, komm_nr_splits) for a returned change series.
partition_changes(series) ==
    LET changes == drop_non_changes(series)
    IN  [komm_nr_changes |-> {row \in changes : ~is_split(changes, row)},
         komm_nr_splits |-> {row \in changes : is_split(changes, row)}]

\* target_date defaults to to_date when only to_date is given.
komm_nr_target_date(to_date, target_date) ==
    IF target_date = None /\ to_date # None THEN to_date ELSE target_date

(***************************************************************************)
(* _get_latest_komm_nr (komm_nr.py): the while loop, one iteration at a    *)
(* time.  A loop state holds the dict, the start code, the current code,   *)
(* the seen set and "loop" / "returned" / "raised".                        *)
(***************************************************************************)
ValueErrorCycle == "ValueError: Found a cycle of municipality codes."

\* `while code in komm_nr_change_dict`
in_change_dict(code, komm_nr_change_dict) == code \in DOMAIN komm_nr_change_dict

\* A variant of the seen test that never fires.
revisited_never(code, seen) == FALSE

\* `if code in seen`
revisited(code, seen) == code \in seen

\* The state on entry: start_code = code, seen = set().
loop_entry(code, komm_nr_change_dict) ==
    [komm_nr_change_dict |-> komm_nr_change_dict, start_code |-> code,
     code |-> code, seen |-> {}, status |-> "loop"]

\* One evaluation of the loop condition and, if it holds, of the body.
loop_step(st) ==
    IF ~in_change_dict(st.code, st.komm_nr_change_dict)
    THEN [st EXCEPT !.status = "returned"]
    ELSE IF revisited(st.code, st.seen)
    THEN [st EXCEPT !.status = "raised"]
    ELSE [st EXCEPT !.seen = st.seen \cup {st.code},
                    !.code = st.komm_nr_change_dict[st.code]]

RECURSIVE run_loop(_)
run_loop(st) == IF st.status # "loop" THEN st ELSE run_loop(loop_step(st))

\* A variant that looks a code up once: komm_nr_change_dict.get(code, code).
_get_latest_komm_nr_single_lookup(code, komm_nr_change_dict) ==
    [loop_entry(code, komm_nr_change_dict) EXCEPT
        !.status = "returned",
        !.code = IF code \in DOMAIN komm_nr_change_dict
                 THEN komm_nr_change_dict[code] ELSE code]

\* The call as a whole: the final loop state (its code is the value
\* returned when its status is "returned").
_get_latest_komm_nr(code, komm_nr_change_dict) ==
    run_loop(loop_entry(code, komm_nr_change_dict))

(***************************************************************************)
(* validate_komm_nr and update_komm_nr (komm_nr.py).  A series is a        *)
(* sequence of codes; NA is a missing value.  The tables that              *)
(* get_komm_nr_changes returns and the official code list of the year are  *)
(* inputs, as in the test suite, which patches both.                       *)
(***************************************************************************)
NA == "NA"

\* _load_komm_nr: the official list without "9999", plus "0000".
_load_komm_nr(official_codes) == (official_codes \ {"9999"}) \cup {"0000"}

\* A variant of invalid_codes that stops at the first invalid code.
invalid_codes_first_only(codes, official_codes) ==
    LET bad == {i \in DOMAIN codes : codes[i] \notin _load_komm_nr(official_codes)}
    IN  IF bad = {} THEN {} ELSE {codes[Min(bad)]}

\* set(codes) - valid_codes: empty when validation passes.
invalid_codes(codes, official_codes) == Range(codes) \ _load_komm_nr(official_codes)

\* original_codes.fillna("0000")
fillna(codes) == [i \in DOMAIN codes |-> IF codes[i] = NA THEN "0000" ELSE codes[i]]

\* komm_nr_changes.set_index("old_code").to_dict()["new_code"]
to_dict(komm_nr_changes) ==
    [old \in {row[1] : row \in komm_nr_changes} |->
        (CHOOSE row \in komm_nr_changes : row[1] = old)[2]]

ValueErrorInvalidCodes == "ValueError: Invalid municipality codes found"

\* validate_komm_nr(codes, year): returns, or raises the ValueError that
\* lists sorted(invalid_codes).
validate_komm_nr(codes, official_codes) ==
    LET invalid == invalid_codes(codes, official_codes)
    IN  IF invalid # {}
        THEN [status |-> "raised", error |-> ValueErrorInvalidCodes,
              invalid |-> invalid]
        ELSE [status |-> "returned", error |-> "", invalid |-> {}]

\* A variant of split_codes that finds no split.
split_codes_none(updated_codes, komm_nr_splits) == {}

\* set(updated_codes).intersection(set(komm_nr_splits["old_code"]))
split_codes(updated_codes, komm_nr_splits) ==
    Range(updated_codes) \cap {row[1] : row \in komm_nr_splits}

\* The rows the warning shows:
\* komm_nr_splits[komm_nr_splits["old_code"].isin(split_codes)]
split_warning(komm_nr_splits, found) ==
    {row \in komm_nr_splits : row[1] \in found}

\* The outcome of update_komm_nr: the updated series or the exception,
\* the split rows warned about and the invalid codes listed.
update_komm_nr(original_codes, komm_nr_changes, komm_nr_splits, validate, official_codes) ==
    LET komm_nr_changes_dict == to_dict(komm_nr_changes)
        filled == fillna(original_codes)
        latest == [i \in DOMAIN filled |->
                      _get_latest_komm_nr(filled[i], komm_nr_changes_dict)]
        updated_codes == [i \in DOMAIN filled |-> latest[i].code]
        found == split_codes(updated_codes, komm_nr_splits)
        invalid == invalid_codes(updated_codes, official_codes)
    IN  IF \E i \in DOMAIN latest : latest[i].status = "raised"
        THEN [status |-> "raised", error |-> ValueErrorCycle,
              updated_codes |-> <<>>, warned |-> {}, invalid |-> {}]
        ELSE IF validate /\ invalid # {}
        THEN [status |-> "raised", error |-> ValueErrorInvalidCodes,
              updated_codes |-> <<>>,
              warned |-> split_warning(komm_nr_splits, found),
              invalid |-> invalid]
        ELSE [status |-> "returned", error |-> "",
              updated_codes |-> updated_codes,
              warned |-> split_warning(komm_nr_splits, found),
              invalid |-> {}]

(***************************************************************************)
(* File versioning (versions/_versions.py, versions/versions.py).  A file  *)
(* name is <base>.parquet (version None) or <base>_v<version>.parquet; a   *)
(* directory is a function from the names of its files to their contents.  *)
(* A file path argument is a scheme with a file name.                      *)
(***************************************************************************)
FileName(base, version) == [base |-> base, version |-> version]

\* str.startswith on the base names of the model.
starts_with(base, prefix) ==
    base = prefix \/ (base = "data_extra" /\ prefix = "data")

ValueErrorUnsupportedPath == "ValueError: Usupported path format"
ValueErrorVersionedPath == "ValueError: Detected versioning in function parameter: filepath."
RuntimeErrorGlob == "RuntimeError: Failed to glob files with pattern"
RuntimeErrorMissingLatest ==
    "RuntimeError: Expected latest path to exist for rename to _v1, but it was not found."
OSError == "OSError"

\* resolve_path: the three supported formats give a path, others raise.
resolve_path(filepath) ==
    IF filepath.scheme \in {"gs://", "/buckets", "ssb-"}
    THEN [status |-> "returned", error |-> "",
          path |-> FileName(filepath.base, filepath.version)]
    ELSE [status |-> "raised", error |-> ValueErrorUnsupportedPath,
          path |-> FileName("", None)]

\* A variant of the suffix test that finds no suffix.
has_version_suffix_never(path) == FALSE

\* re.search(r"_v\d+$", stem)
has_version_suffix(path) == path.version # None

\* get_glob_pattern: "<stem without version>*.parquet", kept as that stem.
get_glob_pattern(path) == path.base

\* get_list_of_versioned_files: parent.glob(pattern).
get_list_of_versioned_files(files, path) ==
    {n \in DOMAIN files : starts_with(n.base, get_glob_pattern(path))}

\* get_version_number_from_filepath: the suffix number, or None.
get_version_number_from_filepath(path) == path.version

\* A variant that counts an unsuffixed file as version 0.
get_latest_version_number_unsuffixed_zero(files, path) ==
    LET files_list == get_list_of_versioned_files(files, path)
    IN  IF files_list = {} THEN 0
        ELSE Max({IF fp.version # None THEN fp.version ELSE 0 : fp \in files_list})

get_latest_version_number(files, path) ==
    LET files_list == get_list_of_versioned_files(files, path)
        version_numbers ==
            {get_version_number_from_filepath(fp) : fp \in files_list}
        numeric_versions ==
            {IF v # None THEN v ELSE 1 : v \in version_numbers}
    IN  IF files_list = {} THEN 0 ELSE Max(numeric_versions)

get_next_version_number(files, path) == get_latest_version_number(files, path) + 1

\* df.to_parquet / pd.read_parquet: a file's content is kept as the
\* dataframe that reading it gives; the dataframes of the model are ones
\* the format stores exactly.
to_parquet(df) == df
read_parquet(content) == content

\* A variant of the comparison that never finds two dataframes equal.
equals_never(existing_df, df) == FALSE

\* existing_df.equals(df)
equals(existing_df, df) == existing_df = df

\* Writing a file creates it or replaces its content.
write_file(files, name, df) ==
    [n \in DOMAIN files \cup {name} |->
        IF n = name THEN to_parquet(df) ELSE files[n]]

\* old_path.rename(target=new_path)
rename(files, old_path, new_path) ==
    [n \in (DOMAIN files \ {old_path}) \cup {new_path} |->
        IF n = new_path THEN files[old_path] ELSE files[n]]

\* A variant that leaves the unversioned file where it is.
_promote_forgotten(files, stem) == files

_promote_unversioned_to_v1(files, stem) ==
    rename(files, FileName(stem, None), FileName(stem, 1))

\* A variant that writes no versioned file.
_write_new_version_skipped(files, df, stem, version) == files

_write_new_version(files, df, stem, version) ==
    write_file(files, FileName(stem, version), df)

_update_latest_file(files, df, stem) ==
    write_file(files, FileName(stem, None), df)

\* write_versioned_pandas up to its first file operation: the exception
\* raised, the early return, or the step to take next.  io names the read
\* operation that fails in this call, if any.
write_entry(files, df, filepath, io) ==
    LET resolved == resolve_path(filepath)
        path == resolved.path
        stem == path.base
        next_version_number == get_next_version_number(files, path)
        latest_path == FileName(stem, None)
        outcome(status, error, next_pc, number) ==
            [status |-> status, error |-> error, next_pc |-> next_pc,
             stem |-> stem, next_version_number |-> number]
        versioned ==
            outcome("running", "",
                    IF next_version_number = 2 THEN "promote"
                    ELSE "write_new_version", next_version_number)
    IN  IF resolved.status = "raised"
        THEN outcome("raised", resolved.error, "idle", 0)
        ELSE IF has_version_suffix(path)
        THEN outcome("raised", ValueErrorVersionedPath, "idle", 0)
        ELSE IF io = "glob_fails"
        THEN outcome("raised", RuntimeErrorGlob, "idle", 0)
        ELSE IF next_version_number = 1
        THEN outcome("running", "", "update_latest", 1)
        ELSE IF latest_path \in DOMAIN files
        THEN IF io = "read_fails"
             THEN outcome("raised", OSError, "idle", next_version_number)
             ELSE IF equals(read_parquet(files[latest_path]), df)
             THEN outcome("returned", "", "idle", next_version_number)
             ELSE versioned
        ELSE IF next_version_number = 2
        THEN outcome("raised", RuntimeErrorMissingLatest, "idle", 2)
        ELSE versioned

(***************************************************************************)
(* Generated classifications: three contiguous versions starting at dates  *)
(* 1, 2 and 3 (the last one open-ended), listed newest first; every        *)
(* version holds a non-empty set of codes; each pair of adjacent versions  *)
(* has a correspondence table of at most MaxRows rows over the codes of    *)
(* its two versions.  All tables of a classification are stored with the   *)
(* newer version as source (as the service does) or all with the older     *)
(* one; with `complete` every table also lists each code that occurs in    *)
(* none of its rows with a null partner ("ceased" / "new").                *)
(***************************************************************************)
GenCodes == {"1507", "1508"}

GenVersions == <<
    [version_id |-> 3, validFrom |-> 3, validTo |-> None],
    [version_id |-> 2, validFrom |-> 2, validTo |-> 3],
    [version_id |-> 1, validFrom |-> 1, validTo |-> 2]>>

GenItems == [{1, 2, 3} -> (SUBSET GenCodes) \ {{}}]

\* Rows <<code in the older version, code in the newer version>>.
GenRowSets(older, newer) ==
    {rows \in SUBSET (older \X newer) : Cardinality(rows) <= MaxRows}

\* The null rows of a complete table.
GenNullRows(older, newer, rows) ==
    {<<a, null>> : a \in {x \in older : \A r \in rows : r[1] # x}}
    \cup {<<null, b>> : b \in {y \in newer : \A r \in rows : r[2] # y}}

\* The table (id v) between versions v and v + 1.
GenTable(items, v, rows, newer_is_source, complete) ==
    LET all == IF complete
               THEN rows \cup GenNullRows(items[v], items[v + 1], rows)
               ELSE rows
    IN  IF newer_is_source
        THEN [id |-> v, sourceId |-> v + 1, targetId |-> v,
              correspondence |-> {Row(r[2], r[1]) : r \in all}]
        ELSE [id |-> v, sourceId |-> v, targetId |-> v + 1,
              correspondence |-> {Row(r[1], r[2]) : r \in all}]

GenClassifications ==
    UNION {
      {[versions |-> GenVersions, items |-> items,
        tables |-> {GenTable(items, 1, rows1, d, n), GenTable(items, 2, rows2, d, n)}] :
          rows1 \in GenRowSets(items[1], items[2]),
          rows2 \in GenRowSets(items[2], items[3]),
          d \in BOOLEAN, n \in BOOLEAN}
      : items \in GenItems}

Classifications == GenClassifications \cup {FixtureFour, FixtureFive}

\* The dates a query may name for a classification: from the date before
\* its first version starts to MaxDateAfter dates after its last one starts.
Dates(c) ==
    LET starts == {_get_from_date(m) : m \in Range(c.versions)}
    IN  (Min(starts) - 1)..(Max(starts) + MaxDateAfter)

(***************************************************************************)
(* State.                                                                  *)
(***************************************************************************)
VARIABLES
    classification,  \* the classification the service holds
    pc,              \* "idle", or the function that has run
    call,            \* arguments of the get_klass_change_mapping call
    result,          \* its outcome
    komm,            \* the tables get_komm_nr_changes returned
    resolve,         \* the loop state of a _get_latest_komm_nr call
    update,          \* inputs and outcomes of update_komm_nr calls
    files,           \* the directory: file name -> content
    write            \* the write_versioned_pandas call and its record

vars == <<classification, pc, call, result, komm, resolve, update, files, write>>
klass_vars == <<classification, call, result, komm>>
versions_vars == <<files, write>>

NoCall == [target_date |-> None, from_date |-> None, to_date |-> None]
NoResult ==
    [status |-> "none", error |-> "", series |-> {}, graph |-> NoGraph,
     target_date |-> None, from_date |-> None]
NoKomm == [komm_nr_changes |-> {}, komm_nr_splits |-> {}]
NoResolve == loop_entry("", <<>>)
NoOutcome ==
    [status |-> "none", error |-> "", updated_codes |-> <<>>,
     warned |-> {}, invalid |-> {}]
NoUpdate ==
    [original_codes |-> <<>>, komm_nr_changes |-> {}, komm_nr_splits |-> {},
     validate |-> FALSE, official_codes |-> {}, first |-> NoOutcome,
     second |-> NoOutcome,
     validation |-> [status |-> "none", error |-> "", invalid |-> {}]]

EmptyDir == [n \in {} |-> ""]
NoQuery == [filepath |-> [scheme |-> "", base |-> "", version |-> None],
            status |-> "none", error |-> "", number |-> 0]
NoWrite ==
    [df |-> "", filepath |-> [scheme |-> "", base |-> "", version |-> None],
     stem |-> "", next_version_number |-> 0, status |-> "none", error |-> "",
     log |-> <<>>, before |-> EmptyDir, start |-> EmptyDir, calls |-> 0,
     fresh |-> FALSE,
     failed |-> FALSE, written |-> <<>>, last_df |-> "", query |-> NoQuery]

Init ==
    /\ classification \in Classifications
    /\ pc = "idle"
    /\ call = NoCall
    /\ result = NoResult
    /\ komm = NoKomm
    /\ resolve = NoResolve
    /\ update = NoUpdate
    /\ files = EmptyDir
    /\ write = NoWrite

\* A direct call of get_klass_change_mapping.
GetKlassChangeMapping(target_date, from_date, to_date) ==
    /\ pc = "idle"
    /\ pc' = "get_klass_change_mapping"
    /\ call' = [target_date |-> target_date, from_date |-> from_date,
                to_date |-> to_date]
    /\ result' = get_klass_change_mapping(classification, target_date,
                                          from_date, to_date)
    /\ UNCHANGED <<classification, komm, resolve, update, versions_vars>>

\* A call of get_komm_nr_changes: the change mapping, then the partition;
\* an exception of get_klass_change_mapping propagates.
GetKommNrChanges(from_date, to_date, target_date) ==
    /\ pc = "idle"
    /\ pc' = "get_komm_nr_changes"
    /\ LET target == komm_nr_target_date(to_date, target_date)
           r == get_klass_change_mapping(classification, target, from_date, to_date)
       IN  /\ call' = [target_date |-> target, from_date |-> from_date,
                       to_date |-> to_date]
           /\ result' = r
           /\ komm' = IF r.status = "returned"
                      THEN partition_changes(r.series)
                      ELSE NoKomm
    /\ UNCHANGED <<classification, resolve, update, versions_vars>>

Next ==
    \/ \E t, f, to \in Dates(classification) \cup {None} :
          GetKlassChangeMapping(t, f, to)
    \/ \E f \in Dates(classification) :
          \E to, t \in Dates(classification) \cup {None} :
             GetKommNrChanges(f, to, t)

Spec == Init /\ [][Next]_vars

(***************************************************************************)
(* _get_latest_komm_nr, iteration by iteration, for every change dict over *)
(* ResolveCodes (identity entries and cycles included) and every start     *)
(* code.  The loop runs to its end once entered: weak fairness.            *)
(***************************************************************************)
ResolveCodes == {"1111", "2222", "3333", "0301"}

ChangeDicts == UNION {[D -> ResolveCodes] : D \in SUBSET ResolveCodes}

ResolveInit ==
    /\ classification = FixtureFour
    /\ pc = "_get_latest_komm_nr"
    /\ call = NoCall
    /\ result = NoResult
    /\ komm = NoKomm
    /\ update = NoUpdate
    /\ files = EmptyDir
    /\ write = NoWrite
    /\ \E d \in ChangeDicts : \E code \in ResolveCodes :
          resolve = loop_entry(code, d)

\* The loop condition fails: return code.
LoopExit ==
    /\ resolve.status = "loop"
    /\ ~in_change_dict(resolve.code, resolve.komm_nr_change_dict)
    /\ resolve' = loop_step(resolve)
    /\ UNCHANGED <<klass_vars, pc, update, versions_vars>>

\* The code was seen before: raise the cycle error.
LoopRaise ==
    /\ resolve.status = "loop"
    /\ in_change_dict(resolve.code, resolve.komm_nr_change_dict)
    /\ revisited(resolve.code, resolve.seen)
    /\ resolve' = loop_step(resolve)
    /\ UNCHANGED <<klass_vars, pc, update, versions_vars>>

\* seen.add(code); code = komm_nr_change_dict[code]
LoopIterate ==
    /\ resolve.status = "loop"
    /\ in_change_dict(resolve.code, resolve.komm_nr_change_dict)
    /\ ~revisited(resolve.code, resolve.seen)
    /\ resolve' = loop_step(resolve)
    /\ UNCHANGED <<klass_vars, pc, update, versions_vars>>

ResolveNext == LoopExit \/ LoopRaise \/ LoopIterate

SpecResolve == ResolveInit /\ [][ResolveNext]_vars /\ WF_vars(ResolveNext)

(***************************************************************************)
(* update_komm_nr, applied once and then again to its own output, for      *)
(* every series of at most MaxLen values and every pair of tables of the   *)
(* shape get_komm_nr_changes returns (no identity row, one row per old     *)
(* code in the clean changes, several per old code in the splits).         *)
(***************************************************************************)
UpdateCodes == {"1111", "2222", "3333", "0000"}

SeriesOver(S) == UNION {[1..n -> S] : n \in 0..MaxLen}

\* Clean-changes tables: a dict without identity entries, as rows.
CleanChanges ==
    {{<<old, d[old]>> : old \in DOMAIN d} :
        d \in {f \in UNION {[D -> UpdateCodes] : D \in SUBSET UpdateCodes} :
                  \A old \in DOMAIN f : f[old] # old}}

\* Splits tables for a clean-changes table: none, or one old code that is
\* not a clean change, split into every other municipality code.
SplitTables(changes) ==
    {{}} \cup
    {{<<old, new>> : new \in UpdateCodes \ {old, "0000"}} :
        old \in UpdateCodes \ {row[1] : row \in changes}}

\* Official code lists of the year.
OfficialLists == {{"1111", "2222", "3333", "9999"}, {"3333", "9999"}}

UpdateInit ==
    /\ classification = FixtureFour
    /\ pc = "idle"
    /\ call = NoCall
    /\ result = NoResult
    /\ komm = NoKomm
    /\ resolve = NoResolve
    /\ files = EmptyDir
    /\ write = NoWrite
    /\ \E codes \in SeriesOver(UpdateCodes \cup {NA, "9999"}) :
       \E changes \in CleanChanges :
       \E splits \in SplitTables(changes) :
       \E validate \in BOOLEAN :
       \E official \in OfficialLists :
          update = [NoUpdate EXCEPT !.original_codes = codes,
                                    !.komm_nr_changes = changes,
                                    !.komm_nr_splits = splits,
                                    !.validate = validate,
                                    !.official_codes = official]

\* update_komm_nr(original_codes, year, validate)
UpdateKommNr ==
    /\ pc = "idle"
    /\ pc' = "update_komm_nr"
    /\ update' = [update EXCEPT !.first =
          update_komm_nr(update.original_codes, update.komm_nr_changes,
                         update.komm_nr_splits, update.validate,
                         update.official_codes)]
    /\ UNCHANGED <<klass_vars, resolve, versions_vars>>

\* update_komm_nr applied to the series the first call returned, for the
\* same year (the same tables and official list).
UpdateKommNrAgain ==
    /\ pc = "update_komm_nr"
    /\ update.first.status = "returned"
    /\ pc' = "update_komm_nr_again"
    /\ update' = [update EXCEPT !.second =
          update_komm_nr(update.first.updated_codes, update.komm_nr_changes,
                         update.komm_nr_splits, update.validate,
                         update.official_codes)]
    /\ UNCHANGED <<klass_vars, resolve, versions_vars>>

\* validate_komm_nr(codes, year)
ValidateKommNr ==
    /\ pc = "idle"
    /\ pc' = "validate_komm_nr"
    /\ update' = [update EXCEPT !.validation =
          validate_komm_nr(update.original_codes, update.official_codes)]
    /\ UNCHANGED <<klass_vars, resolve, versions_vars>>

UpdateNext == UpdateKommNr \/ UpdateKommNrAgain \/ ValidateKommNr

SpecUpdate == UpdateInit /\ [][UpdateNext]_vars

(***************************************************************************)
(* write_versioned_pandas and get_next_version_number on one directory,    *)
(* file operation by file operation.  The directory starts with any of     *)
(* the files data.parquet, data_v1..data_v3.parquet and possibly a file of *)
(* another dataset; each read, rename or write may fail, and a failed      *)
(* operation changes no file.                                              *)
(***************************************************************************)
\* Greatest number of write_versioned_pandas calls in a run.
MaxCalls == 3

Dataframes == {"X", "Y"}

Schemes == {"gs://", "ssb-", "/buckets", "C:"}

\* File path arguments: the base name under every scheme, and a path that
\* carries a version suffix.
Filepaths ==
    {[scheme |-> sch, base |-> "data", version |-> None] : sch \in Schemes}
    \cup {[scheme |-> "gs://", base |-> "data", version |-> 2]}

\* Files of other datasets that may share the directory.
OtherFiles ==
    {{}, {FileName("data_extra", None)}, {FileName("data_extra", 5)},
     {FileName("other", None)}}

\* The version suffixes (None: unsuffixed) of the files of the base name
\* that a run may find: none, complete histories, and histories with gaps.
ExistingVersions ==
    {{}, {None}, {None, 1, 2}, {None, 1, 2, 3},
     {1}, {1, 2}, {3}, {None, 2}}

\* A history cut back to its first version: data_v2.parquet and later were
\* removed, data_v1.parquet holds "Y" and the unversioned file holds "X".
CutBackDirectory ==
    (FileName("data", None) :> "X") @@ (FileName("data", 1) :> "Y")

\* The directories a run may start from; every file there holds "X",
\* except in the history that was cut back.
Directories ==
    {[n \in {FileName("data", v) : v \in vs} \cup other |-> "X"] :
        vs \in ExistingVersions, other \in OtherFiles}
    \cup {CutBackDirectory}

VersionsInit ==
    /\ classification = FixtureFour
    /\ pc = "idle"
    /\ call = NoCall
    /\ result = NoResult
    /\ komm = NoKomm
    /\ resolve = NoResolve
    /\ update = NoUpdate
    /\ files \in Directories
    /\ write = [NoWrite EXCEPT !.fresh = (DOMAIN files = {}),
                                !.start = files]

\* versions.get_next_version_number(filepath)
GetNextVersionNumber(filepath) ==
    /\ pc = "idle"
    /\ LET resolved == resolve_path(filepath)
       IN  write' = [write EXCEPT !.query =
              [filepath |-> filepath, status |-> resolved.status,
               error |-> resolved.error,
               number |-> IF resolved.status = "returned"
                          THEN get_next_version_number(files, resolved.path)
                          ELSE 0]]
    /\ UNCHANGED <<klass_vars, pc, resolve, update, files>>

\* write_versioned_pandas(df, filepath) up to its first file operation.
WriteVersionedPandas(df, filepath, io) ==
    /\ pc = "idle"
    /\ write.calls < MaxCalls
    /\ LET entry == write_entry(files, df, filepath, io)
       IN  /\ pc' = entry.next_pc
           /\ write' = [write EXCEPT
                 !.df = df, !.filepath = filepath, !.stem = entry.stem,
                 !.next_version_number = entry.next_version_number,
                 !.status = entry.status, !.error = entry.error,
                 !.log = <<>>, !.before = files, !.calls = @ + 1,
                 !.query = NoQuery,
                 !.failed = @ \/ entry.status = "raised",
                 !.last_df = IF entry.status = "returned" THEN df ELSE @]
    /\ UNCHANGED <<klass_vars, resolve, update, files>>

\* The call fails in a file operation: the exception is re-raised.
raise_in_step ==
    /\ pc' = "idle"
    /\ write' = [write EXCEPT !.status = "raised", !.error = OSError,
                              !.failed = TRUE]
    /\ UNCHANGED files

\* _promote_unversioned_to_v1
Promote(ok) ==
    /\ pc = "promote"
    /\ IF ok
       THEN /\ files' = _promote_unversioned_to_v1(files, write.stem)
            /\ write' = [write EXCEPT !.log = Append(@, "rename")]
            /\ pc' = "write_new_version"
       ELSE raise_in_step
    /\ UNCHANGED <<klass_vars, resolve, update>>

\* _write_new_version
WriteNewVersion(ok) ==
    /\ pc = "write_new_version"
    /\ IF ok
       THEN /\ files' = _write_new_version(files, write.df, write.stem,
                                           write.next_version_number)
            /\ write' = [write EXCEPT !.log = Append(@, "write_version")]
            /\ pc' = "update_latest"
       ELSE raise_in_step
    /\ UNCHANGED <<klass_vars, resolve, update>>

\* _update_latest_file, after which the call returns.
UpdateLatest(ok) ==
    /\ pc = "update_latest"
    /\ IF ok
       THEN /\ files' = _update_latest_file(files, write.df, write.stem)
            /\ write' = [write EXCEPT
                  !.log = Append(@, "write_latest"),
                  !.status = "returned",
                  !.written = Append(@, write.df),
                  !.last_df = write.df]
            /\ pc' = "idle"
       ELSE raise_in_step
    /\ UNCHANGED <<klass_vars, resolve, update>>

VersionsNext ==
    \/ \E filepath \in Filepaths : GetNextVersionNumber(filepath)
    \/ \E df \in Dataframes : \E filepath \in Filepaths :
          \E io \in {"ok", "glob_fails", "read_fails"} :
             WriteVersionedPandas(df, filepath, io)
    \/ \E ok \in BOOLEAN : Promote(ok)
    \/ \E ok \in BOOLEAN : WriteNewVersion(ok)
    \/ \E ok \in BOOLEAN : UpdateLatest(ok)

SpecVersions == VersionsInit /\ [][VersionsNext]_vars


(***************************************************************************)
(* Properties of get_klass_change_mapping and get_komm_nr_changes.         *)
(***************************************************************************)
Called == pc \in {"get_klass_change_mapping", "get_komm_nr_changes"}
Returned == Called /\ result.status = "returned"

\* The dates of the call once the defaults for None are applied.
CallTarget ==
    IF call.target_date = None
    THEN Max({m.validFrom : m \in Range(classification.versions)})
    ELSE call.target_date
CallFrom ==
    IF call.from_date = None
    THEN Min({m.validFrom : m \in Range(classification.versions)})
    ELSE call.from_date

\* The versions whose window [validFrom, validTo) contains date d.
ValidOn(d) ==
    {m \in Range(classification.versions) :
        m.validFrom <= d /\ (m.validTo = None \/ d < m.validTo)}

\* The versions whose window overlaps the call's [from_date, to_date].
InWindow ==
    {m.version_id : m \in {x \in Range(classification.versions) :
        /\ (x.validTo = None \/ CallFrom < x.validTo)
        /\ (call.to_date = None \/ x.validFrom <= call.to_date)}}

RECURSIVE Forward(_, _)
\* The least set of nodes that contains S and every head of an edge of E
\* whose tail it contains.
Forward(E, S) ==
    LET T == S \cup {e[2] : e \in {d \in E : d[1] \in S}}
    IN  IF T = S THEN S ELSE Forward(E, T)

RECURSIVE Backward(_, _)
\* The least set of nodes that contains S and every tail of an edge of E
\* whose head it contains.
Backward(E, S) ==
    LET T == S \cup {e[1] : e \in {d \in E : d[2] \in S}}
    IN  IF T = S THEN S ELSE Backward(E, T)

\* The edges of the built graph that are not ADJUSTMENT_PART_TO_EXISTING.
KeptEdges ==
    {e \in result.graph.edges :
        result.graph.cession_type[e] # "ADJUSTMENT_PART_TO_EXISTING"}

\* The graph nodes of the version valid on the target date.
TargetNodes ==
    {n \in Nodes(result.graph.edges) :
        \E m \in ValidOn(CallTarget) : m.version_id = n.version}

\* C1: a returned change mapping is exactly the set of pairs (old_code = c,
\* new_code = n.code) with n a graph node of the version valid on the target
\* date and c the code of a node reachable from n forward or backward (n
\* included) once the ADJUSTMENT_PART_TO_EXISTING edges are removed.
C1_MappingIsReachability ==
    Returned =>
        result.series =
            {<<m.code, n.code>> :
                <<m, n>> \in {p \in Nodes(result.graph.edges) \X TargetNodes :
                    p[1] \in Forward(KeptEdges, {p[2]})
                             \cup Backward(KeptEdges, {p[2]})}}

\* A returned mapping with a pair that only a path of several hops yields.
C1_Witness ==
    /\ Returned
    /\ \E n \in TargetNodes : \E m \in Backward(KeptEdges, {n}) :
          /\ m # n
          /\ <<m, n>> \notin KeptEdges
          /\ \A k \in Nodes(result.graph.edges) :
                k.code = m.code => <<k, n>> \notin KeptEdges

\* The new codes the returned mapping holds for an old code.
NewCodesOf(old) == {row[2] : row \in {r \in result.series : r[1] = old}}

\* C2: every old code that the change mapping relates to N > 1 distinct
\* current codes (every new_code counted) has all its N rows in the splits
\* table and none in the clean-changes table.
C2_SplitsHoldEveryRow ==
    (pc = "get_komm_nr_changes" /\ result.status = "returned") =>
        \A old \in {r[1] : r \in result.series} :
            Cardinality(NewCodesOf(old)) > 1 =>
                /\ \A new \in NewCodesOf(old) : <<old, new>> \in komm.komm_nr_splits
                /\ \A row \in komm.komm_nr_changes : row[1] # old

\* The codes of the version valid on the target date that no row of any
\* correspondence table names.
UnchangedTargetCodes ==
    {code \in UNION {classification.items[m.version_id] : m \in ValidOn(CallTarget)} :
        \A ct \in classification.tables : \A row \in ct.correspondence :
            row.sourceCode # code /\ row.targetCode # code}

\* C6: every code of the version valid on the target date that appears in
\* no correspondence-table row is in the returned mapping, mapped to itself
\* and to no other code.
C6_NoChangePreserved ==
    Returned =>
        \A code \in UnchangedTargetCodes : NewCodesOf(code) = {code}

\* C7: every node of the built graph belongs to a version whose window
\* overlaps [from_date, to_date], and no version or table outside the window
\* is fetched; a version outside the window contributes no node or edge.
C7_GraphWithinWindow ==
    Called =>
        /\ \A n \in Nodes(result.graph.edges) : n.version \in InWindow
        /\ result.graph.fetched_versions \subseteq InWindow
        /\ \A ct \in classification.tables :
              ct.id \in result.graph.fetched_tables =>
                  ct.sourceId \in InWindow /\ ct.targetId \in InWindow

\* A graph with edges was built while a version outside the window is
\* named by a correspondence table that has rows to add.
C7_Witness ==
    /\ Called
    /\ result.graph.edges # {}
    /\ \E ct \in classification.tables :
          /\ (ct.sourceId \notin InWindow \/ ct.targetId \notin InWindow)
          /\ (ct.sourceId \in InWindow \/ ct.targetId \in InWindow)
          /\ \E row \in ct.correspondence :
                row.sourceCode # null /\ row.targetCode # null

\* The call of the four-version fixture as its test makes it: target_date in
\* the window of version 4, from_date and to_date left to their defaults.
FixtureFourTargetFour ==
    /\ Called
    /\ classification = FixtureFour
    /\ call.from_date = None
    /\ call.to_date = None
    /\ CallTarget >= 2024

\* C8 as stated: in the four-version fixture with the target in version
\* 4's window every one of 1504, 1507, 1508, 1523, 1529 and 1580 maps to
\* both 1508 and 1580.
C8_EveryCodeMapsToBoth ==
    FixtureFourTargetFour =>
        \A c \in {"1504", "1507", "1508", "1523", "1529", "1580"} :
            {<<c, "1508">>, <<c, "1580">>} \subseteq result.series

\* C8 amended: 1504, 1507, 1523 and 1529 map to both 1508 and 1580, while
\* 1508 and 1580 each map to themselves only.
C8_FixtureFourMapping ==
    FixtureFourTargetFour =>
        /\ result.status = "returned"
        /\ result.series =
              ({"1504", "1507", "1523", "1529"} \X {"1508", "1580"})
              \cup {<<"1508", "1508">>, <<"1580", "1580">>}

C8_Witness ==
    /\ FixtureFourTargetFour
    /\ call.target_date = 2024
    /\ <<"1504", "1580">> \in result.series

\* C9: whenever target_date < from_date after the defaults are applied the
\* call fails with the invalid-argument error, before any version payload
\* or correspondence table is fetched and before any graph is built.
C9_TargetBeforeFromFails ==
    (Called /\ CallTarget < CallFrom) =>
        /\ result.status = "raised"
        /\ result.error = ValueErrorTargetOlder
        /\ result.graph.fetched_versions = {}
        /\ result.graph.fetched_tables = {}
        /\ result.graph.edges = {}

\* The invalid-argument failure of a call that left from_date to its
\* default, for a classification that has tables and versions to fetch.
C9_Witness ==
    /\ Called
    /\ call.from_date = None
    /\ call.target_date # None
    /\ CallTarget < CallFrom
    /\ result.error = ValueErrorTargetOlder
    /\ \E ct \in classification.tables : ct.correspondence # {}

\* The descriptive error of level_mapping._get_version_from_date.
NoVersionValidOnDate ==
    "ValueError: Klass classification don't have a version that's valid on date"

\* C10: if no version's window contains target_date (and target_date is
\* not older than from_date, which is C9's failure) the call fails with the
\* descriptive 'no version valid on date' error and returns no mapping.
C10_NoVersionValidError ==
    (Called /\ ~(CallTarget < CallFrom) /\ ValidOn(CallTarget) = {}) =>
        /\ result.status = "raised"
        /\ result.error = NoVersionValidOnDate


(***************************************************************************)
(* Properties of _get_latest_komm_nr and update_komm_nr.                   *)
(***************************************************************************)
\* p follows old_code -> new_code in dict d from the start code.
Follows(p, d, start) ==
    /\ p[1] = start
    /\ \A k \in 1..(Len(p) - 1) : p[k] \in DOMAIN d /\ p[k + 1] = d[p[k]]

\* Following old_code -> new_code from the start code revisits a code.
ChainRevisits(d, start) ==
    \E n \in 2..(Cardinality(ResolveCodes) + 1) :
        \E p \in [1..n -> ResolveCodes] :
            /\ Follows(p, d, start)
            /\ \E i, j \in 1..n : i < j /\ p[i] = p[j]

\* C3: _get_latest_komm_nr terminates for every change dict and start code;
\* it raises the cycle error exactly when the chain from the start code
\* revisits a code, and a code it returns is not a key of the dict.
C3_ResolveTerminates ==
    /\ <>(resolve.status # "loop")
    /\ [](resolve.status = "raised" =>
            ChainRevisits(resolve.komm_nr_change_dict, resolve.start_code))
    /\ [](resolve.status = "returned" =>
            /\ ~ChainRevisits(resolve.komm_nr_change_dict, resolve.start_code)
            /\ resolve.code \notin DOMAIN resolve.komm_nr_change_dict)

\* The dict {A: B, B: A} resolved from A has raised the cycle error.
C3_Witness ==
    /\ resolve.status = "raised"
    /\ resolve.start_code = "1111"
    /\ DOMAIN resolve.komm_nr_change_dict = {"1111", "2222"}
    /\ resolve.komm_nr_change_dict["1111"] = "2222"
    /\ resolve.komm_nr_change_dict["2222"] = "1111"

\* The keys of the clean-changes dict.
ChangeKeys == {row[1] : row \in update.komm_nr_changes}

\* C4: the series update_komm_nr returns has the length of its input, and
\* at every position of an input code it holds the code that following the
\* clean-changes rows from the input code reaches and that is no key; an
\* input code that is no key is returned unchanged.
C4_UpdateReachesFixedPoint ==
    (pc = "update_komm_nr" /\ update.first.status = "returned") =>
        /\ Len(update.first.updated_codes) = Len(update.original_codes)
        /\ \A i \in DOMAIN update.original_codes :
              update.original_codes[i] # NA =>
                  /\ update.first.updated_codes[i] \in
                        Forward(update.komm_nr_changes, {update.original_codes[i]})
                  /\ update.first.updated_codes[i] \notin ChangeKeys
                  /\ (update.original_codes[i] \notin ChangeKeys =>
                        update.first.updated_codes[i] = update.original_codes[i])

\* 1111 -> 2222 -> 3333 has yielded 3333, next to an unchanged 3333.
C4_Witness ==
    /\ pc = "update_komm_nr"
    /\ update.komm_nr_changes = {<<"1111", "2222">>, <<"2222", "3333">>}
    /\ update.original_codes = <<"1111", "3333">>
    /\ update.first.status = "returned"
    /\ update.first.updated_codes = <<"3333", "3333">>

\* C5: update_komm_nr applied, with the same tables, to the series a
\* successful first application returned, returns that same series.
C5_UpdateIdempotent ==
    pc = "update_komm_nr_again" =>
        /\ update.second.status = "returned"
        /\ update.second.updated_codes = update.first.updated_codes

\* A second application to a series the first application changed through
\* a chain of two changes.
C5_Witness ==
    /\ pc = "update_komm_nr_again"
    /\ update.second.status = "returned"
    /\ \E i \in DOMAIN update.original_codes :
          /\ <<update.original_codes[i], "2222">> \in update.komm_nr_changes
          /\ <<"2222", update.first.updated_codes[i]>> \in update.komm_nr_changes


(***************************************************************************)
(* Properties of write_versioned_pandas and get_next_version_number.  A    *)
(* file "of the base name" is one the scan for the base name finds.        *)
(***************************************************************************)
Latest == FileName("data", None)
Versioned(k) == FileName("data", k)

\* The files of the directory d that the scan for "data" finds.
OfBaseName(d) == {n \in DOMAIN d : n.base \in {"data", "data_extra"}}

\* The calls so far were made one after the other and all returned.
CallsCompleted == pc = "idle" /\ write.calls >= 1 /\ ~write.failed

CallReadsLatest ==
    /\ write.calls >= 1
    /\ write.filepath.scheme \in {"gs://", "ssb-", "/buckets"}
    /\ write.filepath.version = None
    /\ write.status # "raised"

\* C12: a call whose dataframe equals the content of the existing
\* unversioned file returns without creating, renaming or rewriting any
\* file, whatever the next version number; so the same dataframe written
\* twice to a fresh path leaves the unversioned file alone.
C12_IdenticalWriteSkips ==
    /\ (/\ CallReadsLatest
        /\ Latest \in DOMAIN write.before
        /\ write.before[Latest] = write.df) =>
           /\ pc = "idle"
           /\ write.status = "returned"
           /\ write.log = <<>>
           /\ files = write.before
    /\ (/\ CallsCompleted
        /\ write.fresh
        /\ write.calls = 2
        /\ write.written = <<write.df>>) =>
           /\ DOMAIN files = {Latest}
           /\ files[Latest] = write.df

\* The same dataframe written twice to a fresh path.
C12_Witness ==
    /\ CallsCompleted
    /\ write.fresh
    /\ write.calls = 2
    /\ write.written = <<write.df>>
    /\ write.log = <<>>
    /\ write.next_version_number = 2

\* The version suffixes of the files of the base name.
Suffixes == {n.version : n \in {m \in DOMAIN files : m.base = "data"}} \ {None}

\* C13: after calls that all completed, starting from an empty directory,
\* data.parquet holds the dataframe of the most recent call; and once two
\* content-changing writes have happened the k-th of them is held by
\* data_v<k>.parquet, the suffixes are 1..N without gaps and
\* data_v<N>.parquet has the content of data.parquet.
C13_LatestAndHistory ==
    (CallsCompleted /\ write.fresh) =>
        /\ Latest \in DOMAIN files
        /\ files[Latest] = write.last_df
        /\ Len(write.written) >= 2 =>
              /\ Suffixes = 1..Len(write.written)
              /\ \A k \in 1..Len(write.written) :
                    files[Versioned(k)] = write.written[k]
              /\ files[Versioned(Len(write.written))] = files[Latest]

\* Three content-changing writes to an empty directory.
C13_Witness ==
    /\ CallsCompleted
    /\ write.fresh
    /\ write.written = <<"X", "Y", "X">>
    /\ Suffixes = {1, 2, 3}

ValidCodes == (update.official_codes \ {"9999"}) \cup {"0000"}

\* The distinct values of the series that are not valid.
InvalidInSeries ==
    {update.original_codes[i] : i \in DOMAIN update.original_codes} \ ValidCodes

Filled(i) ==
    IF update.original_codes[i] = NA THEN "0000" ELSE update.original_codes[i]

\* The old codes of the splits table.
SplitOldCodes == {row[1] : row \in update.komm_nr_splits}

\* C16: when a code of the series is the old code of a split, the call
\* ends as it would without the splits table (it does not fail because of
\* the split), and when it returns it has warned about every row of that
\* split and returns the code unchanged.
C16_SplitsAreNotFatal ==
    pc = "update_komm_nr" =>
        \A i \in DOMAIN update.original_codes :
            Filled(i) \in SplitOldCodes =>
                /\ LET without == update_komm_nr(update.original_codes,
                                      update.komm_nr_changes, {},
                                      update.validate, update.official_codes)
                   IN  /\ update.first.status = without.status
                       /\ update.first.error = without.error
                /\ update.first.status = "returned" =>
                      /\ update.first.updated_codes[i] = Filled(i)
                      /\ \A row \in update.komm_nr_splits :
                            row[1] = Filled(i) => row \in update.first.warned

\* A call has returned a split code unchanged next to a code it updated.
C16_Witness ==
    /\ pc = "update_komm_nr"
    /\ update.first.status = "returned"
    /\ update.first.warned # {}
    /\ \E i, j \in DOMAIN update.original_codes :
          /\ Filled(i) \in SplitOldCodes
          /\ update.first.updated_codes[i] = Filled(i)
          /\ update.first.updated_codes[j] # Filled(j)

\* C17: every missing input value appears as "0000" in the series
\* update_komm_nr returns, whatever the change dict contains.
C17_MissingStaysSentinel ==
    (pc = "update_komm_nr" /\ update.first.status = "returned") =>
        \A i \in DOMAIN update.original_codes :
            update.original_codes[i] = NA =>
                update.first.updated_codes[i] = "0000"


(***************************************************************************)
(* Properties of the tables of get_komm_nr_changes and of the edges of     *)
(* the change graph.                                                       *)
(***************************************************************************)
\* The rows of table t whose old code is old.
RowsOf(t, old) == {row \in t : row[1] = old}

\* C18: the two tables hold no identity row; every old code of the clean
\* changes is in exactly one row, every old code of the splits in at least
\* two; no old code is in both tables; and together the tables hold every
\* non-identity row of the mapping.
C18_TablesPartitionChanges ==
    (pc = "get_komm_nr_changes" /\ result.status = "returned") =>
        /\ \A row \in komm.komm_nr_changes \cup komm.komm_nr_splits :
              row[1] # row[2]
        /\ \A row \in komm.komm_nr_changes :
              Cardinality(RowsOf(komm.komm_nr_changes, row[1])) = 1
        /\ \A row \in komm.komm_nr_splits :
              Cardinality(RowsOf(komm.komm_nr_splits, row[1])) >= 2
        /\ {row[1] : row \in komm.komm_nr_changes}
              \cap {row[1] : row \in komm.komm_nr_splits} = {}
        /\ komm.komm_nr_changes \cup komm.komm_nr_splits =
              {row \in result.series : row[1] # row[2]}

\* A mapping with identity rows and with old codes that have several new
\* codes has been partitioned.
C18_Witness ==
    /\ pc = "get_komm_nr_changes"
    /\ result.status = "returned"
    /\ komm.komm_nr_splits # {}
    /\ \E row \in result.series : row[1] = row[2]

\* The validity start of a version.
StartOf(version_id) ==
    (CHOOSE m \in Range(classification.versions) :
        m.version_id = version_id).validFrom

\* The edge came from a row of a correspondence table between two versions
\* of the window, turned so that it leaves the older version.
FromTable(e) ==
    \E ct \in classification.tables :
        /\ ct.sourceId \in InWindow
        /\ ct.targetId \in InWindow
        /\ \E row \in ct.correspondence :
              /\ row.sourceCode # null
              /\ row.targetCode # null
              /\ LET source == [code |-> row.sourceCode, version |-> ct.sourceId]
                     target == [code |-> row.targetCode, version |-> ct.targetId]
                 IN  IF StartOf(ct.sourceId) > StartOf(ct.targetId)
                     THEN e = <<target, source>>
                     ELSE e = <<source, target>>

GraphEdges == result.graph.edges
OutDegree(n) == Cardinality({e \in GraphEdges : e[1] = n})
InDegree(n) == Cardinality({e \in GraphEdges : e[2] = n})
SuccessorCodes(n) == {e[2].code : e \in {d \in GraphEdges : d[1] = n}}
PredecessorCodes(n) == {e[1].code : e \in {d \in GraphEdges : d[2] = n}}

\* The seven rules in their order; each line holds when its rule is the
\* first that matches the edge (v, u).
FirstMatchingRule(v, u) ==
    LET r1 == InDegree(u) = 1 /\ OutDegree(v) = 1
        r2 == v.code = u.code
        r3 == OutDegree(v) = 1
        r5 == v.code \notin SuccessorCodes(v)
        r6 == u.code \notin PredecessorCodes(u)
    IN  CHOOSE t \in _CessionType :
          \/ t = "NO_CESSION" /\ r1
          \/ t = "BORDER_CHANGE" /\ ~r1 /\ r2
          \/ t = "CESSATION_WHOLE" /\ ~r1 /\ ~r2 /\ r3
          \/ t = "CESSATION_PART_TO_NEW" /\ ~r1 /\ ~r2 /\ ~r3 /\ r5 /\ r6
          \/ t = "CESSATION_PART_TO_EXISTING" /\ ~r1 /\ ~r2 /\ ~r3 /\ r5 /\ ~r6
          \/ t = "ADJUSTMENT_PART_TO_NEW" /\ ~r1 /\ ~r2 /\ ~r3 /\ ~r5 /\ r6
          \/ t = "ADJUSTMENT_PART_TO_EXISTING" /\ ~r1 /\ ~r2 /\ ~r3 /\ ~r5 /\ ~r6

\* C19: every edge of the built graph carries one cession type; an edge
\* that came from a correspondence table carries the type of the first
\* matching rule, degrees and neighbours taken on the whole graph; and an
\* edge with in_degree(u) = 1 and out_degree(v) = 1 is NO_CESSION.
C19_FirstMatchingRuleLabels ==
    Called =>
        /\ DOMAIN result.graph.cession_type = GraphEdges
        /\ \A e \in GraphEdges :
              /\ result.graph.cession_type[e] \in _CessionType
              /\ FromTable(e) =>
                    result.graph.cession_type[e] = FirstMatchingRule(e[1], e[2])
              /\ (InDegree(e[2]) = 1 /\ OutDegree(e[1]) = 1) =>
                    result.graph.cession_type[e] = "NO_CESSION"

\* A table edge between equal codes, which the second rule matches too,
\* has in_degree(u) = 1 and out_degree(v) = 1 and is NO_CESSION.
C19_Witness ==
    /\ Called
    /\ \E e \in GraphEdges :
          /\ FromTable(e)
          /\ e[1].code = e[2].code
          /\ InDegree(e[2]) = 1
          /\ OutDegree(e[1]) = 1
          /\ result.graph.cession_type[e] = "NO_CESSION"

\* C20: every edge (v, u) of the graph leaves the version that starts
\* earlier, however the tables are stored; hence no node reaches itself.
C20_EdgesPointForward ==
    Called =>
        /\ \A e \in GraphEdges : StartOf(e[1].version) < StartOf(e[2].version)
        /\ \A n \in Nodes(GraphEdges) :
              n \notin Forward(GraphEdges, {e[2] : e \in {d \in GraphEdges : d[1] = n}})

\* The graph holds an edge of a table that names the newer version as its
\* source.
C20_Witness ==
    /\ Called
    /\ \E ct \in classification.tables :
          /\ StartOf(ct.sourceId) > StartOf(ct.targetId)
          /\ \E row \in ct.correspondence :
                /\ row.sourceCode # null
                /\ row.targetCode # null
                /\ row.sourceCode # row.targetCode
                /\ <<[code |-> row.targetCode, version |-> ct.targetId],
                     [code |-> row.sourceCode, version |-> ct.sourceId]>>
                      \in GraphEdges

\* The pair is one the identity loop produces: the same code in two
\* versions of the window that are consecutive by start date, the code
\* being an item of both.
IdentityPair(e) ==
    /\ e[1].code = e[2].code
    /\ e[1].version \in InWindow
    /\ e[2].version \in InWindow
    /\ StartOf(e[1].version) < StartOf(e[2].version)
    /\ \A w \in InWindow :
          ~(StartOf(e[1].version) < StartOf(w) /\ StartOf(w) < StartOf(e[2].version))
    /\ e[1].code \in classification.items[e[1].version]
                     \cap classification.items[e[2].version]

\* C21: a pair of nodes produced both as an identity edge and by a
\* correspondence row is one edge of the graph, and its cession type is the
\* one the labeling rules infer, not the NO_CESSION preset: it is
\* NO_CESSION only when the first rule matches; in the five-version fixture
\* (3118, v4) -> (3118, v5) is BORDER_CHANGE.
C21_TableEdgeOverridesIdentity ==
    Called =>
        /\ \A e \in GraphEdges :
              (IdentityPair(e) /\ FromTable(e)) =>
                  /\ result.graph.cession_type[e] = FirstMatchingRule(e[1], e[2])
                  /\ result.graph.cession_type[e] = "NO_CESSION" =>
                        (InDegree(e[2]) = 1 /\ OutDegree(e[1]) = 1)
        /\ \A e \in GraphEdges :
              (IdentityPair(e) /\ ~FromTable(e)) =>
                  result.graph.cession_type[e] = "NO_CESSION"
        /\ (/\ classification = FixtureFive
            /\ ~(CallTarget < CallFrom)
            /\ {4, 5} \subseteq InWindow) =>
              LET e == <<[code |-> "3118", version |-> 4],
                         [code |-> "3118", version |-> 5]>>
              IN  /\ e \in GraphEdges
                  /\ result.graph.cession_type[e] = "BORDER_CHANGE"

\* The graph of the five-version fixture holds the doubly produced edge
\* (3118, v4) -> (3118, v5), labelled BORDER_CHANGE.
C21_Witness ==
    /\ Called
    /\ classification = FixtureFive
    /\ \E e \in GraphEdges :
          /\ IdentityPair(e)
          /\ FromTable(e)
          /\ e[1] = [code |-> "3118", version |-> 4]
          /\ e[2] = [code |-> "3118", version |-> 5]
          /\ result.graph.cession_type[e] = "BORDER_CHANGE"

\* C22: ADJUSTMENT_PART_TO_EXISTING edges take no part in the query: every
\* pair (old_code, new_code) of a returned mapping is carried by a node of
\* the target version and a node joined to it by a forward or backward path
\* free of such edges; in the five-version fixture with a target date in
\* version 5 the old code 3207 maps only to 3207, and 3118 does not map to
\* 3207 over the excluded edge.
C22_AdjustmentEdgesExcluded ==
    Returned =>
        LET other == {e \in GraphEdges :
                result.graph.cession_type[e] # "ADJUSTMENT_PART_TO_EXISTING"}
        IN  /\ \A row \in result.series :
                  \E n \in TargetNodes, m \in Nodes(GraphEdges) :
                      /\ m.code = row[1]
                      /\ n.code = row[2]
                      /\ \/ m \in Forward(other, {n})
                         \/ m \in Backward(other, {n})
            /\ (classification = FixtureFive /\ CallTarget >= 2026) =>
                  /\ \A row \in result.series :
                        row[1] = "3207" => row[2] = "3207"
                  /\ <<"3118", "3207">> \notin result.series

\* The five-version fixture queried for 2026: the graph holds the excluded
\* edge (3118, v4) -> (3207, v5), and the mapping holds 3207 -> 3207.
C22_Witness ==
    /\ Returned
    /\ classification = FixtureFive
    /\ CallTarget = 2026
    /\ LET e == <<[code |-> "3118", version |-> 4],
                  [code |-> "3207", version |-> 5]>>
       IN  /\ e \in GraphEdges
           /\ result.graph.cession_type[e] = "ADJUSTMENT_PART_TO_EXISTING"
    /\ <<"3207", "3207">> \in result.series
    /\ <<"3118", "3118">> \in result.series

\* A row with a null source or target code.
NullRow(row) == row.sourceCode = null \/ row.targetCode = null

\* The edge a row of a table yields, turned to leave the older version.
EdgeOfRow(ct, row) ==
    LET source == [code |-> row.sourceCode, version |-> ct.sourceId]
        target == [code |-> row.targetCode, version |-> ct.targetId]
    IN  IF StartOf(ct.sourceId) > StartOf(ct.targetId)
        THEN <<target, source>>
        ELSE <<source, target>>

\* C23: a correspondence row with a null source or target code adds no node
\* and no edge and raises no error, and the other rows of its table are
\* still added: no node has a null code, every edge is an identity edge or
\* the edge of a row without null, every such row of a table between two
\* versions of the window has its edge in the graph, and the call ends as
\* it does on the same classification without its null rows.
C23_NullRowsSkipped ==
    (Called /\ ~(CallTarget < CallFrom)) =>
        /\ \A n \in Nodes(GraphEdges) : n.code # null
        /\ \A e \in GraphEdges : IdentityPair(e) \/ FromTable(e)
        /\ \A ct \in classification.tables :
              (ct.sourceId \in InWindow /\ ct.targetId \in InWindow) =>
                  \A row \in ct.correspondence :
                      ~NullRow(row) => EdgeOfRow(ct, row) \in GraphEdges
        /\ result = get_klass_change_mapping(
                        [classification EXCEPT !.tables =
                            {[ct EXCEPT !.correspondence =
                                 {row \in @ : ~NullRow(row)}] :
                             ct \in classification.tables}],
                        call.target_date, call.from_date, call.to_date)

\* A table of the window holds a null row beside a row without null, the
\* edge of the latter is in the graph, and the call returned.
C23_Witness ==
    /\ Returned
    /\ \E ct \in classification.tables :
          /\ ct.sourceId \in InWindow
          /\ ct.targetId \in InWindow
          /\ \E row \in ct.correspondence : NullRow(row)
          /\ \E row \in ct.correspondence :
                /\ ~NullRow(row)
                /\ row.sourceCode # row.targetCode
                /\ EdgeOfRow(ct, row) \in GraphEdges

\* C26: whenever the dates pass the precondition target_date >= from_date
\* and some version is valid on target_date, that version is one of the
\* versions the graph was built from, and the call returns a mapping whose
\* new_code values are exactly the codes of that version.
C26_TargetVersionInGraph ==
    (Called /\ ~(CallTarget < CallFrom) /\ ValidOn(CallTarget) # {}) =>
        \A m \in ValidOn(CallTarget) :
            /\ m.version_id \in result.graph.fetched_versions
            /\ result.status = "returned"
            /\ {row[2] : row \in result.series} = classification.items[m.version_id]

RECURSIVE ChangeDescendants(_, _)
\* The codes reached from the codes of S by following old_code -> new_code
\* in the rows, S included.
ChangeDescendants(rows, S) ==
    LET T == S \cup {row[2] : row \in {r \in rows : r[1] \in S}}
    IN  IF T = S THEN S ELSE ChangeDescendants(rows, T)

\* C27: the clean-changes table get_komm_nr_changes derives holds no cycle
\* (following old_code -> new_code from a code never returns to it), and
\* update_komm_nr does not raise the cycle error for any of its codes.
C27_CleanChangesAcyclic ==
    (pc = "get_komm_nr_changes" /\ result.status = "returned") =>
        /\ \A row \in komm.komm_nr_changes :
              row[1] \notin ChangeDescendants(komm.komm_nr_changes, {row[2]})
        /\ \A row \in komm.komm_nr_changes :
              update_komm_nr(<<row[1]>>, komm.komm_nr_changes,
                             komm.komm_nr_splits, FALSE, {}).error
                  # ValueErrorCycle

\* C24: a call that detects changed content (next version N >= 2) carries
\* out its file operations in the order rename to _v1 (only when N = 2),
\* write of _v<N>, write of the unversioned file: the unversioned file is
\* about to be or has been updated only when _v<N> holds the dataframe, and
\* after the rename _v1 holds what the unversioned file held.
C24_OperationsInOrder ==
    (write.calls >= 1 /\ write.next_version_number >= 2) =>
        LET N == write.next_version_number
            operations ==
                IF N = 2 THEN <<"rename", "write_version", "write_latest">>
                ELSE <<"write_version", "write_latest">>
            Done(operation) == \E i \in DOMAIN write.log : write.log[i] = operation
        IN
        /\ Len(write.log) <= Len(operations)
        /\ \A i \in DOMAIN write.log : write.log[i] = operations[i]
        /\ Done("rename") =>
              /\ N = 2
              /\ Versioned(1) \in DOMAIN files
              /\ files[Versioned(1)] = write.before[Latest]
              /\ ~Done("write_latest") => Latest \notin DOMAIN files
        /\ (pc = "write_new_version" /\ N = 2) => Done("rename")
        /\ (pc = "update_latest" \/ Done("write_latest")) =>
              /\ Done("write_version")
              /\ Versioned(N) \in DOMAIN files
              /\ files[Versioned(N)] = write.df
        /\ Done("write_latest") => files[Latest] = write.df
        /\ (~Done("write_latest") /\ Latest \in DOMAIN files) =>
              files[Latest] = write.before[Latest]

\* A call that found version 2 next and changed content has renamed,
\* written data_v2.parquet and updated data.parquet.
C24_Witness ==
    /\ pc = "idle"
    /\ write.status = "returned"
    /\ write.next_version_number = 2
    /\ write.log = <<"rename", "write_version", "write_latest">>
    /\ files[Versioned(1)] # files[Versioned(2)]

\* The call in write names the base name by a supported path.
SupportedPath == write.filepath.scheme \in {"gs://", "ssb-", "/buckets"}

\* The call in write raised and changed no file of the directory.
RaisedWithoutEffect ==
    /\ pc = "idle"
    /\ write.status = "raised"
    /\ write.error # ""
    /\ write.log = <<>>
    /\ files = write.before

\* C25: a write_versioned_pandas call that fails before its first write
\* step raises and creates, renames or modifies no file: when the path
\* carries a version suffix, when the unversioned file is missing although
\* the next version is 2, and when the unversioned file cannot be read (the
\* call raised although that file held the dataframe of the call).
C25_EarlyFailureChangesNothing ==
    write.calls >= 1 =>
        /\ (SupportedPath /\ write.filepath.version # None) =>
              RaisedWithoutEffect /\ write.error = ValueErrorVersionedPath
        /\ (/\ SupportedPath
            /\ write.filepath.version = None
            /\ get_next_version_number(
                   write.before, FileName(write.filepath.base, None)) = 2
            /\ Latest \notin DOMAIN write.before) =>
              /\ RaisedWithoutEffect
              /\ write.error \in {RuntimeErrorMissingLatest, RuntimeErrorGlob}
        /\ (/\ write.status = "raised"
            /\ SupportedPath
            /\ write.filepath.version = None
            /\ Latest \in DOMAIN write.before
            /\ write.before[Latest] = write.df) =>
              /\ RaisedWithoutEffect
              /\ write.error \in {OSError, RuntimeErrorGlob}
        /\ (write.status = "raised" /\ write.log = <<>>) => files = write.before

\* A call found data_v1.parquet without data.parquet and raised the
\* RuntimeError, leaving the directory as it was.
C25_Witness ==
    /\ RaisedWithoutEffect
    /\ write.error = RuntimeErrorMissingLatest
    /\ Versioned(1) \in DOMAIN files
    /\ Latest \notin DOMAIN files

\* C28: the version history is append-only: every versioned file
\* (<base>_v<k>.parquet) that existed before the current call, and before
\* the first call, is still there with its content; the call created at
\* most data_v<N>.parquet, N its next version number and greater than every
\* suffix that existed, and data_v1.parquet by the rename when N = 2.
C28_HistoryAppendOnly ==
    write.calls >= 1 =>
        LET VersionedFiles(d) == {n \in DOMAIN d : n.version # None}
            created == VersionedFiles(files) \ VersionedFiles(write.before)
        IN
        /\ \A n \in VersionedFiles(write.before) :
              n \in DOMAIN files /\ files[n] = write.before[n]
        /\ \A n \in VersionedFiles(write.start) :
              n \in DOMAIN files /\ files[n] = write.start[n]
        /\ created \subseteq
              {Versioned(write.next_version_number)}
              \cup (IF write.next_version_number = 2 THEN {Versioned(1)} ELSE {})
        /\ \A n \in created :
              n # Versioned(1) =>
                  \A old \in VersionedFiles(write.before) :
                      old.base = "data" => n.version > old.version

\* The last call raised in one of its file operations (the rename, the
\* write of the versioned file or the update of the unversioned file).
FailedInStep ==
    /\ pc = "idle"
    /\ write.status = "raised"
    /\ write.error = OSError
    /\ Latest \in DOMAIN write.before => write.before[Latest] # write.df

\* The step is the entry of a call with the dataframe and path of the last.
RetryBegins ==
    /\ write'.calls = write.calls + 1
    /\ write'.df = write.df
    /\ write'.filepath = write.filepath

\* C29: a call that failed in one of its file operations can be retried:
\* the next call with the same dataframe raises only if a read or listing
\* of its own fails, and a call that completes leaves data.parquet holding
\* its dataframe.
C29_FailedWriteCanBeRetried ==
    /\ [][(FailedInStep /\ RetryBegins) =>
             (write'.status = "raised" =>
                 write'.error \in {RuntimeErrorGlob, OSError})]_vars
    /\ [](/\ pc = "idle"
          /\ write.calls >= 1
          /\ write.status = "returned"
          => Latest \in DOMAIN files /\ files[Latest] = write.df)

\* C30: the version number for the base name data depends only on
\* data.parquet and data_v<k>.parquet: get_next_version_number returns, and
\* write_versioned_pandas uses, the number they would without the files of
\* other datasets, and a call creates no file but data.parquet,
\* data_v1.parquet and the file of that number.
C30_OtherDatasetsIgnored ==
    LET OwnFiles(d) == [n \in {m \in DOMAIN d : m.base = "data"} |-> d[n]]
    IN
    /\ write.query.status = "returned" =>
          write.query.number =
              get_next_version_number(OwnFiles(files), FileName("data", None))
    /\ (/\ write.calls >= 1
        /\ SupportedPath
        /\ write.filepath.version = None
        /\ write.error # RuntimeErrorGlob) =>
          LET N == get_next_version_number(OwnFiles(write.before),
                                           FileName("data", None))
          IN  /\ write.next_version_number = N
              /\ DOMAIN files \ DOMAIN write.before
                    \subseteq {Latest, Versioned(1), Versioned(N)}
              /\ write.error = RuntimeErrorMissingLatest =>
                    (N = 2 /\ Latest \notin DOMAIN write.before)

=============================================================================
